---- MODULE Spec2Model ----
(***************************************************************************)
(* A model of serpent-cli's `transpile` subcommand: argument resolution,   *)
(* remap-file detection and loading, the module/file transpilation run     *)
(* with its file-system effects, path translation and manifest synthesis.  *)
(*                                                                         *)
(* Paths are std::path::Path values seen through `components()`: a path is *)
(* a sequence of components and a component is a sequence of one-character *)
(* strings, so that file-name / extension surgery is modelled character by *)
(* character.  The empty sequence is the empty path "".                    *)
(***************************************************************************)
EXTENDS Integers, Sequences, FiniteSets, TLC

VARIABLES
    fs,             \* the file system: path -> entry, for the paths that exist
    fs0,            \* the file system as it was when the process started
    matches,        \* clap::ArgMatches of the `transpile` subcommand
    pc,             \* position of the (single-threaded) run
    target,         \* resolve_args: `target`, Some(unit) once generate_target returned Ok
    cfg,            \* Some(Config) once resolve_args returned Ok
    err,            \* Some(CliError or panic) the run ended with
    deps_and_remaps,\* transpile_module / do_work: Option<(deps, remaps)>
    transpiled,     \* the driver's result: sequence of TranspiledFile
    idx,            \* transpile_module: number of files the write loop has handled
    has_bin_target, \* transpile_module: local flag
    has_lib_target, \* transpile_module: local flag
    written,        \* log of successful write_file calls of the run
    printed,        \* what was reported on the terminal / log instead of written
    tr,             \* translate(): the inputs drawn and the values returned so far
    mf,             \* create_manifest(): its arguments, calls made, last result
    ln              \* add_line_nbs(): the content drawn and the text returned

runVars == <<fs, fs0, matches, pc, target, cfg, err, deps_and_remaps, transpiled,
             idx, has_bin_target, has_lib_target, written, printed>>

vars == <<runVars, tr, mf, ln>>

----------------------------------------------------------------------------
(* Option<T>: None is the empty sequence, Some(x) the one-element sequence. *)
None == <<>>
Some(x) == <<x>>
IsSome(o) == Len(o) = 1
Unwrap(o) == o[1]

----------------------------------------------------------------------------
(* Result<T, CliError>; a panic is carried as an error value tagged "panic" *)
Ok(v) == [ok |-> TRUE, val |-> v]
Err(e) == [ok |-> FALSE, err |-> e]
Panic(msg) == [tag |-> "panic", msg |-> msg]

----------------------------------------------------------------------------
(* std::path *)

Dot == "."
DirM == <<"m">>
DirW == <<"w">>
DirO == <<"o">>
DirD == <<"d">>
DirX == <<"x">>
ParentDirName == <<Dot, Dot>>
RsExt == <<"r", "s">>
SrcName == <<"s", "r", "c">>

\* Path::starts_with, by whole components
StartsWith(path, base) ==
    /\ Len(base) <= Len(path)
    /\ SubSeq(path, 1, Len(base)) = base

\* Path::strip_prefix: Some(rest) when base is a prefix, None (Err) otherwise
StripPrefix(path, base) ==
    IF StartsWith(path, base)
    THEN Some(SubSeq(path, Len(base) + 1, Len(path)))
    ELSE None

\* Path::join for a relative argument: the components are appended
Join(path, rel) == path \o rel

\* Path::parent: None for the empty path, otherwise the path without its
\* last component (which is the empty path for a single relative component)
Parent(path) ==
    IF path = <<>> THEN None ELSE Some(SubSeq(path, 1, Len(path) - 1))

\* Path::file_name: the last component unless it is `..`
FileName(path) ==
    IF path = <<>> \/ path[Len(path)] = ParentDirName
    THEN None
    ELSE Some(path[Len(path)])

\* index of the last '.' of a file name, 0 when there is none
LastDot(name) ==
    IF \E i \in 1..Len(name) : name[i] = Dot
    THEN CHOOSE i \in 1..Len(name) :
            /\ name[i] = Dot
            /\ \A j \in (i + 1)..Len(name) : name[j] # Dot
    ELSE 0

\* rsplit_file_at_dot: (stem, extension); a name without a dot, or whose only
\* dot is its first character, is all stem
FileStemOf(name) ==
    IF name = ParentDirName \/ LastDot(name) <= 1
    THEN name
    ELSE SubSeq(name, 1, LastDot(name) - 1)

ExtensionOf(name) ==
    IF name = ParentDirName \/ LastDot(name) <= 1
    THEN None
    ELSE Some(SubSeq(name, LastDot(name) + 1, Len(name)))

\* Path::extension
Extension(path) ==
    IF IsSome(FileName(path)) THEN ExtensionOf(Unwrap(FileName(path))) ELSE None

WithExtensionDropDirs(path, ext) ==
    IF IsSome(FileName(path))
    THEN <<FileStemOf(path[Len(path)]) \o <<Dot>> \o ext>>
    ELSE path

\* Path::with_extension (PathBuf::set_extension on a copy): a path without a
\* file name is returned unchanged; otherwise the file name is cut back to
\* its stem and "." and the new extension are appended
WithExtension(path, ext) ==
    IF IsSome(FileName(path))
    THEN SubSeq(path, 1, Len(path) - 1)
            \o <<FileStemOf(path[Len(path)]) \o <<Dot>> \o ext>>
    ELSE path

\* PathBuf::set_file_name: pop the file name if there is one, then push
SetFileName(path, name) ==
    IF IsSome(FileName(path))
    THEN SubSeq(path, 1, Len(path) - 1) \o <<name>>
    ELSE path \o <<name>>

----------------------------------------------------------------------------
(* The file system.  `fs` maps the paths that exist to their entries; paths
   are relative to the working directory, which always exists.  Only the
   paths the pipeline itself stats, reads, creates or writes are tracked
   (the Python sources the driver reads are not). *)

\* a file system (or table) with nothing in it
Empty == <<>>
NoContent == [none |-> TRUE]
DirEntry == [kind |-> "dir", content |-> NoContent]
OtherEntry == [kind |-> "other", content |-> NoContent]   \* fifo, socket, device
FileEntry(c) == [kind |-> "file", content |-> c]

\* Path::exists / Path::is_dir / Path::is_file: the empty path is no file
Exists(fsys, path) == path # <<>> /\ path \in DOMAIN fsys
IsDir(fsys, path) == Exists(fsys, path) /\ fsys[path].kind = "dir"
IsFile(fsys, path) == Exists(fsys, path) /\ fsys[path].kind = "file"

\* the directory an open()/mkdir() resolves the last component in: the
\* working directory for a single relative component
ParentIsDir(fsys, path) ==
    /\ path # <<>>
    /\ (Len(path) = 1 \/ IsDir(fsys, SubSeq(path, 1, Len(path) - 1)))

\* fs::create_dir: Ok with the directory made, or an io::Error
CreateDir(fsys, path) ==
    IF ParentIsDir(fsys, path) /\ ~Exists(fsys, path)
    THEN Ok((path :> DirEntry) @@ fsys)
    ELSE Err([tag |-> "Io"])

\* fs::remove_file
RemoveFile(fsys, path) ==
    IF Exists(fsys, path) /\ fsys[path].kind # "dir"
    THEN Ok([q \in DOMAIN fsys \ {path} |-> fsys[q]])
    ELSE Err([tag |-> "Io"])

\* write_file: open with write + truncate + create, then write_all.  The
\* open fails when the parent directory is missing or the path is a
\* directory; a special file takes the bytes and stays what it is.
WriteFile(fsys, path, contents) ==
    IF ParentIsDir(fsys, path) /\ ~IsDir(fsys, path)
    THEN IF Exists(fsys, path) /\ fsys[path].kind = "other"
         THEN Ok(fsys)
         ELSE Ok((path :> FileEntry(contents)) @@ fsys)
    ELSE Err([tag |-> "Io"])

----------------------------------------------------------------------------
(* main.rs: input classification *)

FileUnit(path) == [unit |-> "File", path |-> path]
ModuleUnit(path) == [unit |-> "Module", path |-> path]

\* to_path: the path itself, or FileOrDirectoryNotFound when it does not exist
ToPath(fsys, input) ==
    IF ~Exists(fsys, input)
    THEN Err([tag |-> "FileOrDirectoryNotFound", input |-> input])
    ELSE Ok(input)

GenerateTargetByName(fsys, input) ==
    IF ~ToPath(fsys, input).ok THEN ToPath(fsys, input)
    ELSE IF IsSome(Extension(input)) THEN Ok(FileUnit(input))
    ELSE Ok(ModuleUnit(input))

\* generate_target: Module for a directory, File for a regular file; an
\* existing path that is neither reaches unreachable!() and panics
GenerateTarget(fsys, input) ==
    IF ~ToPath(fsys, input).ok THEN ToPath(fsys, input)
    ELSE IF fsys[input].kind = "dir" THEN Ok(ModuleUnit(input))
    ELSE IF fsys[input].kind = "file" THEN Ok(FileUnit(input))
    ELSE Err(Panic("unreachable"))

----------------------------------------------------------------------------
(* tp/mod.rs: argument resolution *)

RemapTomlName == <<"R", "e", "m", "a", "p", Dot, "t", "o", "m", "l">>

\* detect: PathIsFile when in_dir is no directory, else Some(in_dir/look_for)
\* when that exists and None when it does not
Detect(fsys, look_for, in_dir) ==
    IF ~IsDir(fsys, in_dir)
    THEN Err([tag |-> "PathIsFile", input |-> in_dir])
    ELSE IF Exists(fsys, Join(in_dir, <<look_for>>))
         THEN Ok(Some(Join(in_dir, <<look_for>>)))
         ELSE Ok(None)

\* the auto-detection arm of resolve_args.  For a module the argument of
\* `.or(..)` is evaluated before `.or` is applied, so its `?` returns the
\* parent directory's error even when the module's own Remap.toml was found.
AutoDetect(fsys, tgt) ==
    IF tgt.unit = "File"
    THEN IF IsSome(Parent(tgt.path))
         THEN Detect(fsys, RemapTomlName, Unwrap(Parent(tgt.path)))
         ELSE Ok(None)
    ELSE LET own == Detect(fsys, RemapTomlName, tgt.path)
             up == IF IsSome(Parent(tgt.path))
                   THEN Detect(fsys, RemapTomlName, Unwrap(Parent(tgt.path)))
                   ELSE Ok(None)
         IN IF ~own.ok THEN own
            ELSE IF ~up.ok THEN up
            ELSE IF IsSome(own.val) THEN own ELSE up

\* the `remap_file` binding of resolve_args
ResolveRemapFile(fsys, m, tgt) ==
    IF IsSome(m.remap_file)
    THEN IF ToPath(fsys, Unwrap(m.remap_file)).ok
         THEN Ok(Some(Unwrap(m.remap_file)))
         ELSE ToPath(fsys, Unwrap(m.remap_file))
    ELSE IF ~m.no_remap THEN AutoDetect(fsys, tgt)
    ELSE Ok(None)

\* `output`: the --output path typed after the kind of the target
\* an output that falls back to a directory of its own when none is given
OutputOfDefault(m, tgt) ==
    IF IsSome(m.output)
    THEN Some([unit |-> tgt.unit, path |-> Unwrap(m.output)])
    ELSE Some([unit |-> tgt.unit, path |-> <<DirO>>])

OutputOf(m, tgt) ==
    IF IsSome(m.output)
    THEN Some([unit |-> tgt.unit, path |-> Unwrap(m.output)])
    ELSE None

\* `create_manifest`: (emit, omit) -> bool; (true, true) is excluded by clap
CreateManifestFlag(m) == m.emit_manifest

\* the check under `if create_manifest`
ManifestAllowed(tgt, output) ==
    tgt.unit = "Module" /\ IsSome(output) /\ Unwrap(output).unit = "Module"

ResolveArgsNoManifestCheck(fsys, m) ==
    LET t == GenerateTarget(fsys, m.INPUT) IN
    IF ~t.ok THEN t
    ELSE LET r == ResolveRemapFile(fsys, m, t.val) IN
         IF ~r.ok THEN r
         ELSE Ok([transpile_unit |-> t.val,
                  line_numbers |-> m.lines,
                  output |-> OutputOf(m, t.val),
                  create_manifest |-> CreateManifestFlag(m),
                  overwrite_manifest |-> TRUE,
                  remap_file |-> r.val])

\* resolve_args: Ok(Config) or the first error
ResolveArgs(fsys, m) ==
    LET t == GenerateTarget(fsys, m.INPUT) IN
    IF ~t.ok THEN t
    ELSE IF CreateManifestFlag(m) /\ ~ManifestAllowed(t.val, OutputOf(m, t.val))
    THEN Err([tag |-> "RedundantParameter"])
    ELSE LET r == ResolveRemapFile(fsys, m, t.val) IN
         IF ~r.ok THEN r
         ELSE Ok([transpile_unit |-> t.val,
                  line_numbers |-> m.lines,
                  output |-> OutputOf(m, t.val),
                  create_manifest |-> CreateManifestFlag(m),
                  overwrite_manifest |-> TRUE,
                  remap_file |-> r.val])

----------------------------------------------------------------------------
(* tp/transpile.rs: the remap file *)

\* toml::Value
TString(str) == [type |-> "String", s |-> str]
TInteger(n) == [type |-> "Integer", i |-> n]
TTable(t) == [type |-> "Table", t |-> t]

\* the bytes of a TOML file, held as what `parse::<toml::Value>()` makes of
\* them: Ok(value) or the deserialization error
TomlText(parsed) == [toml |-> parsed]
ParseToml(content) == content.toml

\* read_remap_file: Ok((deps, remaps)), a CliError, or the panic of
\* `.expect("dependencies not found in remap file")`
ReadRemapFile(fsys, path) ==
    IF ~IsFile(fsys, path) THEN Err([tag |-> "Io"])
    ELSE LET parsed == ParseToml(fsys[path].content) IN
         IF ~parsed.ok THEN Err([tag |-> "TomlError"])
         ELSE IF parsed.val.type # "Table"
         THEN Err([tag |-> "TomlContentError", value |-> parsed.val, expected |-> "table"])
         ELSE LET table == parsed.val.t IN
              IF "dependencies" \notin DOMAIN table
              THEN Err(Panic("dependencies not found in remap file"))
              ELSE IF table["dependencies"].type # "Table"
              THEN Err([tag |-> "TomlContentError",
                        value |-> table["dependencies"], expected |-> "table"])
              ELSE Ok([deps |-> table["dependencies"].t,
                       remaps |-> [k \in DOMAIN table \ {"dependencies"} |-> table[k]]])

----------------------------------------------------------------------------
(* The transpile driver (crate `serpent`), an external collaborator: for a
   module it returns an ordered collection of TranspiledFile, each with a
   source path under the module root, a content and a kind; or an error. *)

MaxFiles == 2

Kinds == {"LibRs", "MainRs", "Other"}

PyName == <<"a", Dot, "p", "y">>
LibPyName == <<"l", "i", "b", Dot, "p", "y">>
LibRsName == <<"l", "i", "b", Dot, "r", "s">>
MainRsName == <<"m", "a", "i", "n", Dot, "r", "s">>
CargoTomlName == <<"C", "a", "r", "g", "o", Dot, "t", "o", "m", "l">>
KeepRsName == <<"k", Dot, "r", "s">>
StaleRsName == <<"a", Dot, "r", "s">>
XTomlName == <<"x", Dot, "t", "o", "m", "l">>
MissingName == <<"n", "o">>

\* the Python sources a module may hold, relative to its root
SourceRels == {<<PyName>>, <<LibPyName>>, <<DirD, PyName>>}

\* the generated Rust text of a source; `numbered` once add_line_nbs ran
RustTarget(source_path) == [rust_of |-> source_path, numbered |-> FALSE]
WithLineNbs(content) == [content EXCEPT !.numbered = TRUE]

TranspiledFile(source_path, kind) ==
    [source_path |-> source_path, content |-> RustTarget(source_path), kind |-> kind]

RECURSIVE FileLists(_, _)
FileLists(root, n) ==
    IF n = 0 THEN {<<>>}
    ELSE LET shorter == FileLists(root, n - 1) IN
         shorter \cup
         {Append(l, TranspiledFile(Join(root, rel), k)) :
            l \in {x \in shorter : Len(x) = n - 1},
            rel \in SourceRels, k \in Kinds}

NoRepeat(l) == \A i, j \in 1..Len(l) : i # j => l[i].source_path # l[j].source_path

\* what the driver may return for the module at `root`
DriverResults(root) == {l \in FileLists(root, MaxFiles) : NoRepeat(l)}

----------------------------------------------------------------------------
(* translate(), transpile.rs *)

TranslateNoSrc(path, from_stem, to_stem) ==
    IF IsSome(StripPrefix(path, from_stem))
    THEN Some(Join(to_stem, WithExtension(Unwrap(StripPrefix(path, from_stem)), RsExt)))
    ELSE None

\* Some(path') on return; None when `strip_prefix(..).unwrap()` panics
Translate(path, from_stem, to_stem) ==
    IF IsSome(StripPrefix(path, from_stem))
    THEN Some(Join(Join(to_stem, <<SrcName>>),
                   WithExtension(Unwrap(StripPrefix(path, from_stem)), RsExt)))
    ELSE None

----------------------------------------------------------------------------
(* The run of `transpile`: tp::run = resolve_args, then do_work *)

C == Unwrap(cfg)

\* an error that is noted while the run stays where it is
EndWithAndGoOn(e) ==
    /\ err' = Some(e)
    /\ pc' = pc

\* how a run ends on an error value: a CliError is returned up to main, a
\* panic aborts the process
EndWith(e) ==
    /\ err' = Some(e)
    /\ pc' = IF e.tag = "panic" THEN "panicked" ELSE "failed"

\* run: `let cfg = resolve_args(matches)?;`
Resolve ==
    /\ pc = "start"
    /\ LET t == GenerateTarget(fs, matches.INPUT)
           r == ResolveArgs(fs, matches)
       IN /\ target' = IF t.ok THEN Some(t.val) ELSE None
          /\ IF r.ok
             THEN cfg' = Some(r.val) /\ pc' = "read_remap" /\ err' = None
             ELSE cfg' = None /\ EndWith(r.err)
    /\ UNCHANGED <<fs, fs0, matches, deps_and_remaps, transpiled, idx,
                   has_bin_target, has_lib_target, written, printed, tr, mf, ln>>

\* do_work / transpile_module: `let deps_and_remaps = match &cfg.remap_file`
ReadRemap ==
    /\ pc = "read_remap"
    /\ IF IsSome(C.remap_file)
       THEN LET r == ReadRemapFile(fs, Unwrap(C.remap_file)) IN
            IF r.ok
            THEN deps_and_remaps' = Some(r.val) /\ pc' = "drive" /\ UNCHANGED err
            ELSE EndWith(r.err) /\ UNCHANGED deps_and_remaps
       ELSE deps_and_remaps' = None /\ pc' = "drive" /\ UNCHANGED err
    /\ UNCHANGED <<fs, fs0, matches, target, cfg, transpiled, idx,
                   has_bin_target, has_lib_target, written, printed, tr, mf, ln>>

\* the line-numbering pass over the driver's files
Numbered(files) ==
    [i \in 1..Len(files) |->
        IF C.line_numbers
        THEN [files[i] EXCEPT !.content = WithLineNbs(files[i].content)]
        ELSE files[i]]

\* transpile_module: TranspileModuleBuilder .. transpile()? returned files
DriveModule ==
    /\ pc = "drive"
    /\ C.transpile_unit.unit = "Module"
    /\ \E files \in DriverResults(C.transpile_unit.path) :
          transpiled' = Numbered(files)
    /\ pc' = IF IsSome(C.output) THEN "mkdir" ELSE "print"
    /\ UNCHANGED <<fs, fs0, matches, target, cfg, err, deps_and_remaps, idx,
                   has_bin_target, has_lib_target, written, printed, tr, mf, ln>>

\* do_work: TranspileFileBuilder .. transpile()? returned the file
DriveFile ==
    /\ pc = "drive"
    /\ C.transpile_unit.unit = "File"
    /\ transpiled' = Numbered(<<TranspiledFile(C.transpile_unit.path, "Other")>>)
    /\ pc' = "output_file"
    /\ UNCHANGED <<fs, fs0, matches, target, cfg, err, deps_and_remaps, idx,
                   has_bin_target, has_lib_target, written, printed, tr, mf, ln>>

\* either builder's transpile()? returned an ApiError
DriveFails ==
    /\ pc = "drive"
    /\ EndWith([tag |-> "SerpentError"])
    /\ UNCHANGED <<fs, fs0, matches, target, cfg, deps_and_remaps, transpiled, idx,
                   has_bin_target, has_lib_target, written, printed, tr, mf, ln>>

\* what info! / println! show of a transpiled file: its path and its text
Reported(file) == [path |-> file.source_path, content |-> file.content]

\* do_work, file target: write_file(path, ..)? or the info! preview
OutputFile ==
    /\ pc = "output_file"
    /\ IF IsSome(C.output)
       THEN LET dest == Unwrap(C.output).path
                w == WriteFile(fs, dest, transpiled[1].content)
            IN IF w.ok
               THEN /\ fs' = w.val
                    /\ written' = Append(written,
                            [src |-> transpiled[1].source_path,
                             kind |-> transpiled[1].kind, dest |-> dest])
                    /\ pc' = "done"
                    /\ UNCHANGED <<err, printed>>
               ELSE EndWith(w.err) /\ UNCHANGED <<fs, written, printed>>
       ELSE /\ printed' = Append(printed, Reported(transpiled[1]))
            /\ pc' = "done"
            /\ UNCHANGED <<fs, err, written>>
    /\ UNCHANGED <<fs0, matches, target, cfg, deps_and_remaps, transpiled, idx,
                   has_bin_target, has_lib_target, tr, mf, ln>>

\* transpile_module, no --output: println! of every file
PrintModule ==
    /\ pc = "print"
    /\ printed' = printed \o [i \in 1..Len(transpiled) |-> Reported(transpiled[i])]
    /\ pc' = "done"
    /\ UNCHANGED <<fs, fs0, matches, target, cfg, err, deps_and_remaps, transpiled,
                   idx, has_bin_target, has_lib_target, written, tr, mf, ln>>

\* the two fs::create_dir calls without the exists() guards
CreateOutputDirsUnguarded(fsys, mod_out_path) ==
    LET first == CreateDir(fsys, mod_out_path)
    IN IF ~first.ok THEN first
       ELSE CreateDir(first.val, Join(mod_out_path, <<SrcName>>))

\* the two guarded fs::create_dir calls: the output directory, then `src`
CreateOutputDirs(fsys, mod_out_path) ==
    LET first == IF ~Exists(fsys, mod_out_path)
                 THEN CreateDir(fsys, mod_out_path)
                 ELSE Ok(fsys)
    IN IF ~first.ok THEN first
       ELSE IF ~Exists(first.val, Join(mod_out_path, <<SrcName>>))
            THEN CreateDir(first.val, Join(mod_out_path, <<SrcName>>))
            ELSE first

\* transpile_module: "Create the output directory"
CreateDirs ==
    /\ pc = "mkdir"
    /\ LET d == CreateOutputDirs(fs, Unwrap(C.output).path) IN
       IF d.ok
       THEN fs' = d.val /\ pc' = "write" /\ UNCHANGED err
       ELSE EndWith(d.err) /\ UNCHANGED fs
    /\ idx' = 0
    /\ has_bin_target' = FALSE
    /\ has_lib_target' = FALSE
    /\ UNCHANGED <<fs0, matches, target, cfg, deps_and_remaps, transpiled,
                   written, printed, tr, mf, ln>>

RenamedSwapped(out_path, kind) ==
    IF kind = "LibRs" THEN SetFileName(out_path, MainRsName)
    ELSE IF kind = "MainRs" THEN SetFileName(out_path, LibRsName)
    ELSE out_path

\* "Replace special file paths if detected"
Renamed(out_path, kind) ==
    IF kind = "LibRs" THEN SetFileName(out_path, LibRsName)
    ELSE IF kind = "MainRs" THEN SetFileName(out_path, MainRsName)
    ELSE out_path

\* one iteration of the loop over transpiled.files()
WriteNext ==
    /\ pc = "write"
    /\ idx < Len(transpiled)
    /\ LET file == transpiled[idx + 1]
           t == Translate(file.source_path, C.transpile_unit.path, Unwrap(C.output).path)
       IN IF ~IsSome(t)
          THEN /\ EndWith(Panic("strip_prefix"))
               /\ UNCHANGED <<fs, idx, has_bin_target, has_lib_target, written>>
          ELSE LET out_path == Renamed(Unwrap(t), file.kind)
                   w == WriteFile(fs, out_path, file.content)
               IN /\ has_lib_target' = (has_lib_target \/ file.kind = "LibRs")
                  /\ has_bin_target' = (has_bin_target \/ file.kind = "MainRs")
                  /\ IF w.ok
                     THEN /\ fs' = w.val
                          /\ idx' = idx + 1
                          /\ written' = Append(written,
                                [src |-> file.source_path, kind |-> file.kind,
                                 dest |-> out_path])
                          /\ UNCHANGED <<pc, err>>
                     ELSE EndWith(w.err) /\ UNCHANGED <<fs, idx, written>>
    /\ UNCHANGED <<fs0, matches, target, cfg, deps_and_remaps, transpiled, printed, tr, mf, ln>>

\* tp/cargo_util.rs: manifest synthesis

\* toml_into_deps that keeps the names and asks for any version
TomlIntoDepsAnyVersion(toml) ==
    IF \E k \in DOMAIN toml : toml[k].type # "String"
    THEN Err([tag |-> "TomlContentError",
              value |-> toml[CHOOSE k \in DOMAIN toml : toml[k].type # "String"],
              expected |-> "String"])
    ELSE Ok([k \in DOMAIN toml |-> "*"])

\* toml_into_deps: name -> version, or TomlContentError(value, "String") for
\* the first value that is no string
TomlIntoDeps(toml) ==
    IF \E k \in DOMAIN toml : toml[k].type # "String"
    THEN Err([tag |-> "TomlContentError",
              value |-> toml[CHOOSE k \in DOMAIN toml : toml[k].type # "String"],
              expected |-> "String"])
    ELSE Ok([k \in DOMAIN toml |-> toml[k].s])

\* BinTarget / LibTarget: named after the stem of the target path
TargetBlock(target_path) ==
    [name |-> FileStemOf(target_path[Len(target_path)]), path |-> target_path]

\* the text emit_manifest writes, held by what it declares
ManifestText(name, deps, bin, lib) ==
    [author |-> "automatically transpiled by serpent",
     name |-> name,
     edition |-> "2018",
     dependencies |-> deps,
     bin |-> bin,
     lib |-> lib]

\* emit_manifest with the library block in the else branch of the binary
\* block: a manifest never declares both
EmitManifestOneTarget(fsys, manifest_filepath, deps, bin_target, lib_target) ==
    LET dir == Unwrap(Parent(manifest_filepath))
        d == IF IsSome(deps) THEN TomlIntoDeps(Unwrap(deps)) ELSE Ok(Empty)
    IN IF ~IsSome(FileName(dir)) THEN Err(Panic("file_stem"))
       ELSE IF ~d.ok THEN d
       ELSE WriteFile(fsys, manifest_filepath,
                ManifestText(FileStemOf(dir[Len(dir)]), d.val,
                    IF IsSome(bin_target) THEN Some(TargetBlock(Unwrap(bin_target))) ELSE None,
                    IF IsSome(lib_target) /\ ~IsSome(bin_target)
                    THEN Some(TargetBlock(Unwrap(lib_target))) ELSE None))

\* emit_manifest of cargo_util.rs: Ok(file system with the manifest
\* written), a CliError, or the panic of an unwrap() on a path without a
\* file name.  CargoToml::build() succeeds once name and author are set.
EmitManifest(fsys, manifest_filepath, deps, bin_target, lib_target) ==
    LET dir == Unwrap(Parent(manifest_filepath))
        d == IF IsSome(deps) THEN TomlIntoDeps(Unwrap(deps)) ELSE Ok(Empty)
    IN IF ~IsSome(FileName(dir)) THEN Err(Panic("file_stem"))
       ELSE IF ~d.ok THEN d
       ELSE IF IsSome(bin_target) /\ ~IsSome(FileName(Unwrap(bin_target)))
       THEN Err(Panic("file_stem"))
       ELSE IF IsSome(lib_target) /\ ~IsSome(FileName(Unwrap(lib_target)))
       THEN Err(Panic("file_stem"))
       ELSE WriteFile(fsys, manifest_filepath,
                ManifestText(FileStemOf(dir[Len(dir)]), d.val,
                    IF IsSome(bin_target) THEN Some(TargetBlock(Unwrap(bin_target))) ELSE None,
                    IF IsSome(lib_target) THEN Some(TargetBlock(Unwrap(lib_target))) ELSE None))

\* create_manifest that returns once it has removed the manifest it found
CreateManifestRemoveOnly(fsys, path, overwrite_previous, deps, bin_target, lib_target) ==
    LET manifest_path == Join(path, <<CargoTomlName>>)
    IN IF Exists(fsys, manifest_path) /\ overwrite_previous
       THEN LET cleared == RemoveFile(fsys, manifest_path)
            IN IF cleared.ok THEN cleared
               ELSE [cleared EXCEPT !.err = [tag |-> "Io", left |-> fsys]]
       ELSE LET e == EmitManifest(fsys, manifest_path, deps, bin_target, lib_target)
            IN IF e.ok THEN e
               ELSE Err([tag |-> e.err.tag, left |-> fsys])

\* create_manifest: an existing manifest is removed when overwrite_previous
\* is set and only logged about when it is not; emit_manifest is called in
\* either case.  The result carries the file system the call leaves.
CreateManifest(fsys, path, overwrite_previous, deps, bin_target, lib_target) ==
    LET manifest_path == Join(path, <<CargoTomlName>>)
        cleared == IF Exists(fsys, manifest_path) /\ overwrite_previous
                   THEN RemoveFile(fsys, manifest_path)
                   ELSE Ok(fsys)
    IN IF ~cleared.ok THEN [cleared EXCEPT !.err = [tag |-> "Io", left |-> fsys]]
       ELSE LET e == EmitManifest(cleared.val, manifest_path, deps, bin_target, lib_target)
            IN IF e.ok THEN e
               ELSE Err([tag |-> e.err.tag, left |-> cleared.val])

\* what the manifest step hands to create_manifest: the dependency table
\* of the remap file in effect, if there is one
ManifestDeps(dr) == IF IsSome(dr) THEN Some(Unwrap(dr).deps) ELSE None

\* ... and the path of the entry file of a kind the loop has seen
EntryTarget(has_target, name) ==
    IF has_target THEN Some(<<SrcName, name>>) ELSE None

\* transpile_module: "Create a manifest", after the loop has ended
Manifest ==
    /\ pc = "write"
    /\ idx = Len(transpiled)
    /\ IF ~C.create_manifest
       THEN pc' = "done" /\ UNCHANGED <<fs, err>>
       ELSE LET mod_out_path == Unwrap(C.output).path
                manifest_path == Join(mod_out_path, <<CargoTomlName>>)
                cleared == IF Exists(fs, manifest_path) /\ C.overwrite_manifest
                           THEN RemoveFile(fs, manifest_path)
                           ELSE Ok(fs)
            IN IF ~cleared.ok
               THEN EndWith(cleared.err) /\ UNCHANGED fs
               ELSE LET e == EmitManifest(cleared.val, manifest_path,
                                          ManifestDeps(deps_and_remaps),
                                          EntryTarget(has_bin_target, MainRsName),
                                          EntryTarget(has_lib_target, LibRsName))
                    IN IF e.ok
                       THEN fs' = e.val /\ pc' = "done" /\ UNCHANGED err
                       ELSE EndWith(e.err) /\ fs' = cleared.val
    /\ UNCHANGED <<fs0, matches, target, cfg, deps_and_remaps, transpiled, idx,
                   has_bin_target, has_lib_target, written, printed, tr, mf, ln>>

Next ==
    \/ Resolve
    \/ ReadRemap
    \/ DriveModule
    \/ DriveFile
    \/ DriveFails
    \/ OutputFile
    \/ PrintModule
    \/ CreateDirs
    \/ WriteNext
    \/ Manifest

----------------------------------------------------------------------------
(* The worlds a run starts in: command lines and file systems *)

InputPaths == {<<DirM>>, <<DirW, DirM>>}
InputKinds == {"absent", "file", "dir", "other"}

DepsGood == TTable("foo" :> TString("1.0"))
RemapGood == TomlText(Ok(TTable(("dependencies" :> DepsGood) @@ ("np" :> TString("ndarray")))))
RemapUpper == TomlText(Ok(TTable("dependencies" :> TTable("bar" :> TString("2.0")))))
RemapGiven == TomlText(Ok(TTable("dependencies" :> TTable("baz" :> TString("3.0")))))
RemapMalformed == TomlText(Err([tag |-> "TomlError"]))
RemapNoDeps == TomlText(Ok(TTable("np" :> TString("ndarray"))))
RemapDepsNotTable == TomlText(Ok(TTable("dependencies" :> TString("foo"))))
RemapDepNotString ==
    TomlText(Ok(TTable("dependencies" :> TTable("foo" :> TInteger(1)))))

\* Remap.toml in the module's own directory: absent, or one of these
OwnRemaps == {None, Some(RemapGood), Some(RemapMalformed), Some(RemapNoDeps),
              Some(RemapDepsNotTable), Some(RemapDepNotString)}
\* Remap.toml next to the input (in its parent directory)
UpperRemaps == {None, Some(RemapUpper)}

\* --remap-file / --no-remap (clap: conflicts_with)
RemapArgs == {[remap_file |-> None, no_remap |-> FALSE],
              [remap_file |-> None, no_remap |-> TRUE],
              [remap_file |-> Some(<<XTomlName>>), no_remap |-> FALSE],
              [remap_file |-> Some(<<MissingName>>), no_remap |-> FALSE]}

\* --emit-manifest / --omit-manifest (clap: conflicts_with)
ManifestArgs == {[emit |-> FALSE, omit |-> FALSE],
                 [emit |-> TRUE, omit |-> FALSE],
                 [emit |-> FALSE, omit |-> TRUE]}

\* --output and what is at that path beforehand
OutChoices ==
    {[arg |-> None, state |-> "absent"],
     [arg |-> Some(<<DirX, DirO>>), state |-> "absent"]}
    \cup {[arg |-> Some(<<DirO>>), state |-> st] : st \in {"absent", "file", "dir", "used"}}

OldFile(n) == FileEntry([old |-> n])

\* an output directory left by an earlier run, holding a file of the user's
UsedOutput(o) ==
    (o :> DirEntry)
    @@ (Join(o, <<SrcName>>) :> DirEntry)
    @@ (Join(o, <<SrcName, DirD>>) :> DirEntry)
    @@ (Join(o, <<SrcName, KeepRsName>>) :> OldFile("keep"))
    @@ (Join(o, <<SrcName, StaleRsName>>) :> OldFile("stale"))
    @@ (Join(o, <<CargoTomlName>>) :> OldFile("manifest"))

OutputPart(out) ==
    IF out.state = "file" THEN (Unwrap(out.arg) :> OldFile("output"))
    ELSE IF out.state = "dir" THEN (Unwrap(out.arg) :> DirEntry)
    ELSE IF out.state = "used" THEN UsedOutput(Unwrap(out.arg))
    ELSE Empty

InputPart(input, kind, own) ==
    IF kind = "dir"
    THEN (input :> DirEntry)
         @@ (IF IsSome(own)
             THEN (Join(input, <<RemapTomlName>>) :> FileEntry(Unwrap(own)))
             ELSE Empty)
    ELSE IF kind = "file" THEN (input :> FileEntry([python |-> TRUE]))
    ELSE IF kind = "other" THEN (input :> OtherEntry)
    ELSE Empty

WorldFS(input, kind, own, upper, out) ==
    (<<DirW>> :> DirEntry)
    @@ (<<XTomlName>> :> FileEntry(RemapGiven))
    @@ InputPart(input, kind, own)
    @@ (IF IsSome(upper)
        THEN (Join(SubSeq(input, 1, Len(input) - 1), <<RemapTomlName>>)
                :> FileEntry(Unwrap(upper)))
        ELSE Empty)
    @@ OutputPart(out)

TrIdle == [r1 |-> <<>>, r2 |-> <<>>, p1 |-> <<>>, p2 |-> <<>>,
           out1 |-> None, out2 |-> None, called |-> 0]

MfIdle == [path |-> <<>>, overwrite_previous |-> FALSE, deps |-> None,
           bin_target |-> None, lib_target |-> None, calls |-> 0, result |-> None,
           first |-> None]

LnIdle == [content |-> <<>>, out |-> None, called |-> FALSE]

\* nothing of a run has happened
RunFresh ==
    /\ pc = "start"
    /\ target = None
    /\ cfg = None
    /\ err = None
    /\ deps_and_remaps = None
    /\ transpiled = <<>>
    /\ idx = 0
    /\ has_bin_target = FALSE
    /\ has_lib_target = FALSE
    /\ written = <<>>
    /\ printed = <<>>

NoMatches == [INPUT |-> <<>>, output |-> None, lines |-> FALSE,
              emit_manifest |-> FALSE, omit_manifest |-> FALSE,
              remap_file |-> None, no_remap |-> FALSE]

\* the run's variables while another specification is checked
RunIdle ==
    /\ fs = Empty
    /\ fs0 = Empty
    /\ matches = NoMatches
    /\ RunFresh

\* Two families of worlds are explored.  In the first the remap files and
\* remap flags vary freely and the output is absent or a fresh directory; in
\* the second the state of the output path and --lines vary freely and the
\* remap file, if any, is a good one in the module's own directory.
RemapWorld(own, upper, ra, out, lines) ==
    /\ out.state = "absent"
    /\ out.arg \in {None, Some(<<DirO>>)}
    /\ ~lines

OutputWorld(own, upper, ra, out, lines) ==
    /\ own \in {None, Some(RemapGood)}
    /\ upper = None
    /\ ra.remap_file = None

Init ==
    /\ \E input \in InputPaths, kind \in InputKinds, own \in OwnRemaps,
          upper \in UpperRemaps, ra \in RemapArgs, ma \in ManifestArgs,
          out \in OutChoices, lines \in BOOLEAN :
          /\ RemapWorld(own, upper, ra, out, lines)
                \/ OutputWorld(own, upper, ra, out, lines)
          /\ fs = WorldFS(input, kind, own, upper, out)
          /\ matches = [INPUT |-> input, output |-> out.arg, lines |-> lines,
                        emit_manifest |-> ma.emit, omit_manifest |-> ma.omit,
                        remap_file |-> ra.remap_file, no_remap |-> ra.no_remap]
    /\ fs0 = fs
    /\ RunFresh
    /\ tr = TrIdle
    /\ mf = MfIdle
    /\ ln = LnIdle

Spec == Init /\ [][Next]_vars

----------------------------------------------------------------------------
(* Argument resolution: properties *)

Resolved == pc # "start"
IsTag(e, tag) == IsSome(e) /\ Unwrap(e).tag = tag

\* resolve_args got past generate_target and the --emit-manifest check
PastManifestCheck ==
    /\ Resolved
    /\ IsSome(target)
    /\ ~IsTag(err, "RedundantParameter")

\* the directory auto-detection looks in first: the module root, or the
\* directory holding a file target
OwnDir == IF Unwrap(target).unit = "Module"
          THEN matches.INPUT
          ELSE SubSeq(matches.INPUT, 1, Len(matches.INPUT) - 1)
UpperDir == SubSeq(matches.INPUT, 1, Len(matches.INPUT) - 1)

\* is there a Remap.toml in directory `dir` (the working directory when
\* `dir` is empty)
HasRemapToml(dir) == Join(dir, <<RemapTomlName>>) \in DOMAIN fs0

\* the remap file the stated priority selects
PrioritySelection ==
    IF IsSome(matches.remap_file) THEN matches.remap_file
    ELSE IF matches.no_remap THEN None
    ELSE IF HasRemapToml(OwnDir) THEN Some(Join(OwnDir, <<RemapTomlName>>))
    ELSE IF Unwrap(target).unit = "Module" /\ HasRemapToml(UpperDir)
         THEN Some(Join(UpperDir, <<RemapTomlName>>))
    ELSE None

\* C2: for an existing target (and an existing --remap-file path, if one is
\* given) argument resolution selects the remap file by the priority
\* explicit path > --no-remap forces none > Remap.toml of the target's own
\* directory > Remap.toml of a module's parent directory > none.
C2_RemapSelectionPriority ==
    (PastManifestCheck
        /\ (IsSome(matches.remap_file) => Exists(fs0, Unwrap(matches.remap_file))))
    => (IsSome(cfg) /\ C.remap_file = PrioritySelection)

\* C3: for an existing target without --remap-file, when --no-remap is set
\* or no Remap.toml is there to find, argument resolution succeeds with
\* remap_file = None.
C3_NoRemapIsNoError ==
    (PastManifestCheck
        /\ matches.remap_file = None
        /\ (matches.no_remap
              \/ (~HasRemapToml(OwnDir) /\ ~HasRemapToml(UpperDir))))
    => (IsSome(cfg) /\ C.remap_file = None /\ err = None)

NothingDoneYet == fs = fs0 /\ transpiled = <<>> /\ written = <<>> /\ printed = <<>>

\* C4: with --emit-manifest and a file target, or no --output, the run ends
\* in RedundantParameter with nothing transpiled and the file system as it
\* was; a Config that asks for a manifest has a module target and a module
\* output.
C4_EmitManifestNeedsModules ==
    /\ (Resolved /\ IsSome(target) /\ matches.emit_manifest
            /\ (Unwrap(target).unit = "File" \/ matches.output = None))
        => (pc = "failed" /\ IsTag(err, "RedundantParameter")
                /\ cfg = None /\ NothingDoneYet)
    /\ (IsSome(cfg) /\ C.create_manifest)
        => (C.transpile_unit.unit = "Module"
                /\ IsSome(C.output) /\ Unwrap(C.output).unit = "Module")

\* --emit-manifest on a file target with an --output was refused
C4_Witness ==
    /\ pc = "failed"
    /\ IsTag(err, "RedundantParameter")
    /\ IsSome(target) /\ Unwrap(target).unit = "File"
    /\ IsSome(matches.output)
    /\ matches.emit_manifest

\* C5: with --omit-manifest and a file target the run ends in
\* RedundantParameter and no file is written (runs that remap
\* auto-detection has already failed with PathIsFile are left aside).
C5_OmitManifestOnFileIsError ==
    (Resolved /\ IsSome(target) /\ Unwrap(target).unit = "File"
        /\ matches.omit_manifest /\ ~IsTag(err, "PathIsFile"))
    => (pc = "failed" /\ IsTag(err, "RedundantParameter") /\ fs = fs0)

\* C6: generate_target fails with FileOrDirectoryNotFound exactly when the
\* input path does not exist, returns Module exactly when it is a directory
\* and File exactly when it is a regular file, keeps the path, and leaves
\* the file system as it was.
C6_TargetByKind ==
    Resolved =>
        /\ (target = None /\ IsTag(err, "FileOrDirectoryNotFound"))
                <=> (matches.INPUT \notin DOMAIN fs0)
        /\ (IsSome(target) /\ Unwrap(target).unit = "Module")
                <=> IsDir(fs0, matches.INPUT)
        /\ (IsSome(target) /\ Unwrap(target).unit = "File")
                <=> IsFile(fs0, matches.INPUT)
        /\ IsSome(target) => Unwrap(target).path = matches.INPUT
        /\ (pc = "read_remap" \/ cfg = None) => fs = fs0

\* a single-component input that is a regular file became a File target
C6_Witness ==
    /\ Resolved
    /\ IsSome(target)
    /\ Unwrap(target) = FileUnit(<<DirM>>)
    /\ fs0[<<DirM>>].kind = "file"

\* the remap file in effect breaks the expected shape
RemapInEffect == fs0[Unwrap(C.remap_file)].content
ShapeBroken(content) ==
    /\ ParseToml(content).ok
    /\ LET table == ParseToml(content).val.t IN
        \/ "dependencies" \notin DOMAIN table
        \/ table["dependencies"].type # "Table"
        \/ \E d \in DOMAIN table["dependencies"].t :
                table["dependencies"].t[d].type # "String"

RunEnded == pc \in {"done", "failed", "panicked"}

\* C7: when the remap file in effect is malformed the run ends with a typed
\* error value, and when it parses but has no `dependencies` key, a
\* `dependencies` that is no table, or a dependency value that is no string,
\* the run ends with TomlContentError carrying the offending value and the
\* expected shape: never with a panic, never with success.
C7_RemapFailuresAreTypedErrors ==
    (RunEnded /\ IsSome(cfg) /\ IsSome(C.remap_file))
    => /\ ~ParseToml(RemapInEffect).ok
            => (pc = "failed" /\ IsTag(err, "TomlError"))
       /\ ShapeBroken(RemapInEffect)
            => (pc = "failed" /\ IsTag(err, "TomlContentError")
                    /\ Unwrap(err).expected \in {"table", "String"})

----------------------------------------------------------------------------
(* Output role renaming: properties *)

OutRoot == Unwrap(C.output).path
TranslatedOf(src) == Unwrap(Translate(src, C.transpile_unit.path, OutRoot))
DirOf(path) == SubSeq(path, 1, Len(path) - 1)

\* every file written by the module run went to the destination its role
\* asks for, in the directory of its translated path
WrittenByRole ==
    \A i \in 1..Len(written) :
        LET w == written[i]
            t == TranslatedOf(w.src)
        IN /\ DirOf(w.dest) = DirOf(t)
           /\ w.kind = "LibRs" => w.dest[Len(w.dest)] = LibRsName
           /\ w.kind = "MainRs" => w.dest[Len(w.dest)] = MainRsName
           /\ w.kind = "Other" => w.dest = t
           /\ w = [src |-> transpiled[i].source_path,
                   kind |-> transpiled[i].kind, dest |-> w.dest]
           /\ IsFile(fs, w.dest)

ModuleMaterialized ==
    /\ pc = "done"
    /\ C.transpile_unit.unit = "Module"
    /\ IsSome(C.output)

LibFiles == {i \in 1..Len(transpiled) : transpiled[i].kind = "LibRs"}
TheLib == transpiled[CHOOSE i \in LibFiles : TRUE]

\* C10 as stated: entry files are written as lib.rs / main.rs in the
\* directory of their translated path and plain files at their translated
\* path; after a module with one LibraryEntry file is materialized, lib.rs
\* exists in the output source directory and nothing was written under the
\* library file's translated name.
C10_LibRsInSrcOnly ==
    /\ (pc \in {"write", "done"} /\ C.transpile_unit.unit = "Module") => WrittenByRole
    /\ (ModuleMaterialized /\ Cardinality(LibFiles) = 1)
        => /\ IsFile(fs, Join(OutRoot, <<SrcName, LibRsName>>))
           /\ \A i \in 1..Len(written) :
                written[i].dest # TranslatedOf(TheLib.source_path)

\* C10, amended: entry files are written as lib.rs / main.rs in the
\* directory of their translated path and plain files at their translated
\* path; after a module with one LibraryEntry file is materialized, lib.rs
\* exists in the directory of that file's translated path (the output source
\* directory when the file lies directly in the module root), and nothing
\* was written under the library file's translated path unless that path is
\* itself lib.rs or is the destination of another file of the module.
C10_LibRsBesideTranslated ==
    /\ (pc \in {"write", "done"} /\ C.transpile_unit.unit = "Module") => WrittenByRole
    /\ (ModuleMaterialized /\ Cardinality(LibFiles) = 1)
        => LET t == TranslatedOf(TheLib.source_path) IN
           /\ IsFile(fs, Join(DirOf(t), <<LibRsName>>))
           /\ Len(TheLib.source_path) = Len(C.transpile_unit.path) + 1
                => IsFile(fs, Join(OutRoot, <<SrcName, LibRsName>>))
           /\ \A i \in 1..Len(written) :
                written[i].dest = t
                    => \/ t[Len(t)] = LibRsName
                       \/ written[i].src # TheLib.source_path

\* a module of two files, the first a library entry, was materialized into
\* a fresh directory: lib.rs is there and a.rs is not
C10_Witness ==
    /\ ModuleMaterialized
    /\ Len(transpiled) = 2
    /\ transpiled[1].kind = "LibRs" /\ transpiled[2].kind = "Other"
    /\ transpiled[1].source_path = Join(C.transpile_unit.path, <<PyName>>)
    /\ OutRoot \notin DOMAIN fs0
    /\ IsFile(fs, Join(OutRoot, <<SrcName, LibRsName>>))
    /\ TranslatedOf(transpiled[1].source_path) \notin DOMAIN fs

----------------------------------------------------------------------------
(* Manifest synthesis on its own: create_manifest called on a destination *)

MaxCalls == 2

ProjName == <<"p", Dot, "x">>
MfPaths == {<<DirO>>, <<DirW, ProjName>>}

\* what is at the destination beforehand: nothing, the directory, or the
\* directory with a manifest written by hand
MfDestinations == {"absent", "dir", "manifest"}
MfDeps == {None, Some(DepsGood.t), Some("foo" :> TInteger(1))}
MfBins == {None, Some(<<SrcName, MainRsName>>)}
MfLibs == {None, Some(<<SrcName, LibRsName>>)}

MfFS(path, dest) ==
    (<<DirW>> :> DirEntry)
    @@ (IF dest = "absent" THEN Empty ELSE (path :> DirEntry))
    @@ (IF dest = "manifest"
        THEN (Join(path, <<CargoTomlName>>) :> OldFile("manifest"))
        ELSE Empty)

InitManifest ==
    /\ \E path \in MfPaths, dest \in MfDestinations, ow \in BOOLEAN,
          deps \in MfDeps, bin \in MfBins, lib \in MfLibs :
          /\ fs = MfFS(path, dest)
          /\ mf = [path |-> path, overwrite_previous |-> ow, deps |-> deps,
                   bin_target |-> bin, lib_target |-> lib, calls |-> 0,
                   result |-> None, first |-> None]
    /\ fs0 = fs
    /\ matches = NoMatches
    /\ RunFresh
    /\ tr = TrIdle
    /\ ln = LnIdle

\* one call of create_manifest with the arguments drawn; `first` keeps what
\* the first call left at the manifest path when it returned Ok
CallCreateManifest ==
    /\ mf.calls < MaxCalls
    /\ LET r == CreateManifest(fs, mf.path, mf.overwrite_previous, mf.deps,
                               mf.bin_target, mf.lib_target)
           at == Join(mf.path, <<CargoTomlName>>)
       IN /\ fs' = IF r.ok THEN r.val ELSE r.err.left
          /\ mf' = [mf EXCEPT !.calls = mf.calls + 1,
                              !.result = Some(IF r.ok THEN "Ok" ELSE r.err.tag),
                              !.first = IF mf.calls > 0 THEN mf.first
                                        ELSE IF r.ok /\ at \in DOMAIN r.val
                                        THEN Some(r.val[at])
                                        ELSE None]
    /\ UNCHANGED <<fs0, matches, pc, target, cfg, err, deps_and_remaps, transpiled,
                   idx, has_bin_target, has_lib_target, written, printed, tr, ln>>

NextManifest == CallCreateManifest

SpecManifest == InitManifest /\ [][NextManifest]_vars

\* the manifest path of the call and whether a manifest was there before
MfManifestPath == Join(mf.path, <<CargoTomlName>>)

\* C1: when a manifest exists at the destination and create_manifest is
\* called with overwrite_previous = false, the call returns Ok and the
\* manifest holds the bytes it held before.
C1_NoOverwriteLeavesManifest ==
    (mf.calls >= 1 /\ ~mf.overwrite_previous /\ MfManifestPath \in DOMAIN fs0)
    => /\ mf.result = Some("Ok")
       /\ MfManifestPath \in DOMAIN fs
       /\ fs[MfManifestPath] = fs0[MfManifestPath]

----------------------------------------------------------------------------
(* Inputs of the path-translation specification *)

MaxNameLen == 3
Alphabet == {"a", "b", Dot}

RECURSIVE NamesOfLen(_)
NamesOfLen(n) ==
    IF n = 0 THEN {<<>>}
    ELSE {<<c>> \o s : c \in Alphabet, s \in NamesOfLen(n - 1)}

\* every file name over the alphabet; `.` alone never is a path component
Names == UNION {NamesOfLen(n) : n \in 1..MaxNameLen} \ {<<Dot>>}

SrcRoots == {<<DirM>>, <<DirW, DirM>>}
DstRoots == {<<DirO>>}

\* source paths relative to the module root: the root itself, a file in
\* it, a file in a sub-directory of it
RelPaths == {<<>>} \cup {<<n>> : n \in Names} \cup {<<DirD, n>> : n \in Names}

TrInputs ==
    {[r1 |-> r1, r2 |-> r2, p1 |-> Join(r1, a), p2 |-> Join(r1, b),
      out1 |-> None, out2 |-> None, called |-> 0] :
        r1 \in SrcRoots, r2 \in DstRoots, a \in RelPaths, b \in RelPaths}

InitTranslate == tr \in TrInputs /\ RunIdle /\ mf = MfIdle /\ ln = LnIdle

TranslateFirst ==
    /\ tr.called = 0
    /\ tr' = [tr EXCEPT !.out1 = Translate(tr.p1, tr.r1, tr.r2), !.called = 1]
    /\ UNCHANGED <<runVars, mf, ln>>

TranslateSecond ==
    /\ tr.called = 1
    /\ tr' = [tr EXCEPT !.out2 = Translate(tr.p2, tr.r1, tr.r2), !.called = 2]
    /\ UNCHANGED <<runVars, mf, ln>>

NextTranslate == TranslateFirst \/ TranslateSecond

SpecTranslate == InitTranslate /\ [][NextTranslate]_vars

----------------------------------------------------------------------------
(* Path translation: properties *)

\* the r1-relative parts of the two inputs
Rel1 == SubSeq(tr.p1, Len(tr.r1) + 1, Len(tr.p1))
Rel2 == SubSeq(tr.p2, Len(tr.r1) + 1, Len(tr.p2))

EndsWithRs(name) ==
    /\ Len(name) >= 3
    /\ SubSeq(name, Len(name) - 2, Len(name)) = <<Dot>> \o RsExt

\* C8 as stated: for fixed roots, two distinct paths under the source root
\* never translate to the same output path.
C8_InjectiveOnAllPaths ==
    (tr.called = 2 /\ tr.p1 # tr.p2) => tr.out1 # tr.out2

\* C8, amended: for fixed roots, two distinct paths under the source root
\* whose root-relative paths carry the same extension (both `.py`, or both
\* none) never translate to the same output path.
C8_InjectiveOnSameExtension ==
    (tr.called = 2 /\ tr.p1 # tr.p2 /\ Extension(Rel1) = Extension(Rel2))
        => (IsSome(tr.out1) /\ IsSome(tr.out2) /\ tr.out1 # tr.out2)

\* two different files of one sub-directory with the same extension were
\* translated, to different paths
C8_Witness ==
    /\ tr.called = 2
    /\ tr.p1 # tr.p2
    /\ Len(Rel1) = 2 /\ Len(Rel2) = 2
    /\ IsSome(Extension(Rel1)) /\ Extension(Rel1) = Extension(Rel2)
    /\ tr.out1 # tr.out2

\* the shape of a translation result: dest root, `src`, the directories of
\* the relative path unchanged
TranslatedUnder(res, r2, rel) ==
    /\ Len(res) = Len(r2) + 1 + Len(rel)
    /\ SubSeq(res, 1, Len(r2)) = r2
    /\ res[Len(r2) + 1] = SrcName
    /\ \A i \in 1..(Len(rel) - 1) : res[Len(r2) + 1 + i] = rel[i]

\* C9 as stated: for every path under the source root the result is the
\* dest root, `src`, and the relative path with its extension replaced by
\* `rs`; it starts with the dest root and ends with the extension `rs`.
C9_EveryPathEndsWithRs ==
    tr.called >= 1 =>
        /\ IsSome(tr.out1)
        /\ TranslatedUnder(Unwrap(tr.out1), tr.r2, Rel1)
        /\ EndsWithRs(Unwrap(tr.out1)[Len(Unwrap(tr.out1))])

\* C9, amended: for every path under the source root whose root-relative
\* path has a file name (it is not empty and does not end in `..`) the
\* result is the dest root, `src`, the directories of the relative path and
\* the file name with its extension replaced by `rs` (the stem followed by
\* ".rs"); it starts with the dest root and ends with the extension `rs`.
C9_FilePathEndsWithRs ==
    (tr.called >= 1 /\ IsSome(FileName(Rel1))) =>
        /\ IsSome(tr.out1)
        /\ LET res == Unwrap(tr.out1)
               out_name == res[Len(res)]
           IN /\ TranslatedUnder(res, tr.r2, Rel1)
              /\ EndsWithRs(out_name)
              /\ SubSeq(out_name, 1, Len(out_name) - 3) = FileStemOf(Rel1[Len(Rel1)])
              /\ StartsWith(res, tr.r2)

\* a file with an extension, in a sub-directory, was translated
C9_Witness ==
    /\ tr.called >= 1
    /\ Len(Rel1) = 2
    /\ IsSome(Extension(Rel1))
    /\ Extension(Rel1) # Extension(Unwrap(tr.out1))
    /\ EndsWithRs(Unwrap(tr.out1)[Len(Unwrap(tr.out1))])

----------------------------------------------------------------------------
(* The manifest of a module run *)

ManifestOfRun == Join(OutRoot, <<CargoTomlName>>)

\* the run ended well and was asked for a manifest
ManifestEmitted == ModuleMaterialized /\ C.create_manifest

Classified(kind) == \E i \in 1..Len(transpiled) : transpiled[i].kind = kind

\* a manifest written by emit_manifest, not one found at the destination
Synthesized(fsys, path) == IsFile(fsys, path) /\ "edition" \in DOMAIN fsys[path].content

----------------------------------------------------------------------------
(* Manifest synthesis called again *)

\* C12: with overwrite_previous = true a call of create_manifest that
\* returns Ok leaves a synthesized manifest, also where one was found (it is
\* removed and written anew), and a further call with the same arguments
\* returns Ok and leaves the manifest the first call left.
C12_OverwriteIsIdempotent ==
    (mf.overwrite_previous /\ mf.calls >= 1) =>
        /\ mf.result = Some("Ok") => Synthesized(fs, MfManifestPath)
        /\ (mf.calls >= 2 /\ IsSome(mf.first)) =>
              /\ mf.result = Some("Ok")
              /\ fs[MfManifestPath] = Unwrap(mf.first)

\* a manifest written by hand was there, and two calls have been made
C12_Witness ==
    /\ mf.overwrite_previous
    /\ mf.calls = 2
    /\ IsFile(fs0, MfManifestPath) /\ ~Synthesized(fs0, MfManifestPath)
    /\ IsSome(mf.first)
    /\ Synthesized(fs, MfManifestPath)
    /\ fs[MfManifestPath] = Unwrap(mf.first)
    /\ IsSome(mf.deps) /\ IsSome(mf.bin_target)

----------------------------------------------------------------------------
(* add_line_nbs on texts, character by character *)

MaxContentLen == 10

NL == "\n"
Chars == {"x", NL}
Contents == UNION {[1..n -> Chars] : n \in 0..MaxContentLen}

\* position of the first line feed of s, 0 when there is none
FirstNL(s) ==
    IF \E i \in 1..Len(s) : s[i] = NL
    THEN CHOOSE i \in 1..Len(s) : s[i] = NL /\ \A j \in 1..(i - 1) : s[j] # NL
    ELSE 0

\* str::lines(): the pieces between line feeds; the text after the last
\* line feed is a line only when it is not empty
RECURSIVE Lines(_)
Lines(s) ==
    IF s = <<>> THEN <<>>
    ELSE IF FirstNL(s) = 0 THEN <<s>>
    ELSE <<SubSeq(s, 1, FirstNL(s) - 1)>> \o Lines(SubSeq(s, FirstNL(s) + 1, Len(s)))

\* ((line_count as f64).log10() as usize) + 1, and 1 for no line
RECURSIVE Log10(_)
Log10(n) == IF n < 10 THEN 0 ELSE 1 + Log10(n \div 10)
NumDigits(line_count) == IF line_count = 0 THEN 1 ELSE Log10(line_count) + 1

\* Display of an unsigned integer
DigitChars == <<"0", "1", "2", "3", "4", "5", "6", "7", "8", "9">>
RECURSIVE Decimal(_)
Decimal(n) ==
    IF n < 10 THEN <<DigitChars[n + 1]>>
    ELSE Append(Decimal(n \div 10), DigitChars[(n % 10) + 1])

\* format!("{:>1$}", n, width): right-aligned, never cut
RightAligned(n, width) ==
    [i \in 1..(IF width > Len(Decimal(n)) THEN width - Len(Decimal(n)) ELSE 0) |-> " "]
        \o Decimal(n)

\* itertools join
RECURSIVE JoinWith(_, _)
JoinWith(pieces, sep) ==
    IF pieces = <<>> THEN <<>>
    ELSE IF Len(pieces) = 1 THEN pieces[1]
    ELSE pieces[1] \o <<sep>> \o JoinWith(Tail(pieces), sep)

\* add_line_nbs with format!("{}", ..): the width is not applied
AddLineNbsUnpadded(s) ==
    LET lines == Lines(s)
    IN JoinWith([line_idx \in 1..Len(lines) |->
                    Decimal(line_idx) \o <<" ">> \o lines[line_idx]], NL)

AddLineNbs(s) ==
    LET lines == Lines(s)
        line_count == Len(lines)
        num_digits == NumDigits(line_count)
    IN JoinWith([line_idx \in 1..line_count |->
                    RightAligned(line_idx, num_digits) \o <<" ">> \o lines[line_idx]], NL)

InitLines ==
    /\ ln \in [content : Contents, out : {None}, called : {FALSE}]
    /\ RunIdle
    /\ tr = TrIdle
    /\ mf = MfIdle

CallAddLineNbs ==
    /\ ~ln.called
    /\ ln' = [ln EXCEPT !.out = Some(AddLineNbs(ln.content)), !.called = TRUE]
    /\ UNCHANGED <<runVars, tr, mf>>

NextLines == CallAddLineNbs

SpecLines == InitLines /\ [][NextLines]_vars

----------------------------------------------------------------------------
(* Reading a numbered text back *)

\* the lines of a text as an editor shows them: one more than line feeds
RECURSIVE SplitAtNL(_)
SplitAtNL(s) ==
    IF FirstNL(s) = 0 THEN <<s>>
    ELSE <<SubSeq(s, 1, FirstNL(s) - 1)>> \o SplitAtNL(SubSeq(s, FirstNL(s) + 1, Len(s)))

\* the number a prefix shows: blanks, then decimal digits
DigitValue(c) == CHOOSE d \in 0..9 : DigitChars[d + 1] = c
RECURSIVE NumberShown(_)
NumberShown(prefix) ==
    IF prefix = <<>> THEN 0
    ELSE IF prefix[Len(prefix)] = " " THEN 0
    ELSE 10 * NumberShown(SubSeq(prefix, 1, Len(prefix) - 1))
            + DigitValue(prefix[Len(prefix)])

IsPrefixText(prefix) ==
    /\ prefix # <<>>
    /\ prefix[Len(prefix)] \in {DigitChars[d] : d \in 1..10}
    /\ \A i \in 1..Len(prefix) : prefix[i] \in {" "} \cup {DigitChars[d] : d \in 1..10}
    /\ \A i \in 1..(Len(prefix) - 1) : prefix[i] # " " => prefix[i + 1] # " "

\* the width of the prefixes of a numbered text with that many lines
PrefixWidth(out) == Len(Decimal(Len(SplitAtNL(out))))

\* every line of `out` is the 1-based index right-aligned to the width of
\* the line count, one blank, and then the line of `content`
PrefixedByIndex(content, out) ==
    LET shown == SplitAtNL(out)
        w == PrefixWidth(out)
    IN /\ Len(shown) = Len(Lines(content))
       /\ \A i \in 1..Len(shown) :
            /\ Len(shown[i]) = w + 1 + Len(Lines(content)[i])
            /\ IsPrefixText(SubSeq(shown[i], 1, w))
            /\ NumberShown(SubSeq(shown[i], 1, w)) = i
            /\ shown[i][w + 1] = " "
            /\ SubSeq(shown[i], w + 2, Len(shown[i])) = Lines(content)[i]

\* the text left when prefix and separator are cut off every line
StripLineNbs(out) ==
    LET shown == SplitAtNL(out)
        w == PrefixWidth(out)
    IN JoinWith([i \in 1..Len(shown) |-> SubSeq(shown[i], w + 2, Len(shown[i]))], NL)

EndsWithNL(s) == s # <<>> /\ s[Len(s)] = NL
WithoutLastNL(s) == IF EndsWithNL(s) THEN SubSeq(s, 1, Len(s) - 1) ELSE s

LinesNumbered == ln.called /\ ln.content # <<>>

\* C13 as stated: for any non-empty content, with or without a final line
\* terminator or empty lines, add_line_nbs prefixes every line with its
\* index right-aligned to the width of the line count and one separator,
\* and cutting that prefix off every output line gives the content back.
C13_NumberingReversible ==
    LinesNumbered =>
        /\ PrefixedByIndex(ln.content, Unwrap(ln.out))
        /\ StripLineNbs(Unwrap(ln.out)) = ln.content

\* C13 amended: the prefixes are as stated, and cutting them off gives the
\* content back without its final line terminator, if it ends with one.
C13_NumberingReversibleButLastNL ==
    LinesNumbered =>
        /\ PrefixedByIndex(ln.content, Unwrap(ln.out))
        /\ StripLineNbs(Unwrap(ln.out)) = WithoutLastNL(ln.content)

\* a content with an empty line that ends with a line terminator
C13_Witness ==
    /\ LinesNumbered
    /\ EndsWithNL(ln.content)
    /\ \E i \in 1..Len(Lines(ln.content)) : Lines(ln.content)[i] = <<>>
    /\ \E i \in 1..Len(Lines(ln.content)) : Lines(ln.content)[i] # <<>>
    /\ StripLineNbs(Unwrap(ln.out)) = WithoutLastNL(ln.content)
    /\ StripLineNbs(Unwrap(ln.out)) # ln.content

----------------------------------------------------------------------------
(* Runs without --output *)

DryPreview == ~IsSome(matches.output)

\* C14: without --output a run over a file or a module leaves the file
\* system as it found it (no directory, source file or manifest is
\* written) and, when it ends well, has reported the text of every
\* transpiled file.
C14_DryPreviewLeavesFilesAlone ==
    DryPreview =>
        /\ fs = fs0
        /\ written = <<>>
        /\ pc = "done" =>
              printed = [i \in 1..Len(transpiled) |-> Reported(transpiled[i])]

\* a module of two files was previewed
C14_Witness ==
    /\ DryPreview
    /\ pc = "done"
    /\ C.transpile_unit.unit = "Module"
    /\ Len(transpiled) = 2
    /\ Len(printed) = 2
    /\ fs = fs0

----------------------------------------------------------------------------
(* The dependencies of the manifest of a module run *)

\* the `dependencies` table of the remap file in effect, as it is on disk
DependenciesOnDisk == ParseToml(RemapInEffect).val.t["dependencies"].t

----------------------------------------------------------------------------
(* The order of the stages of a run *)

\* how far a run has come
StageRank(p) ==
    IF p = "start" THEN 0
    ELSE IF p = "read_remap" THEN 1
    ELSE IF p = "drive" THEN 2
    ELSE IF p \in {"mkdir", "print", "output_file"} THEN 3
    ELSE IF p = "write" THEN 4
    ELSE 5

Ended(p) == p \in {"done", "failed", "panicked"}

\* the entry at a path, None where there is none
EntryAt(fsys, path) == IF path \in DOMAIN fsys THEN Some(fsys[path]) ELSE None

\* this step removes or writes the manifest of the module run
ManifestTouched ==
    /\ IsSome(cfg) /\ IsSome(C.output)
    /\ EntryAt(fs', ManifestOfRun) # EntryAt(fs, ManifestOfRun)

FailFastState ==
    /\ IsSome(err) <=> pc \in {"failed", "panicked"}
    /\ IsSome(deps_and_remaps) => StageRank(pc) >= 2
    /\ transpiled # <<>> => StageRank(pc) >= 3
    /\ written # <<>> => StageRank(pc) >= 4 \/ pc = "done"
    /\ Len(written) <= Len(transpiled)
    \* no rollback: what was written stays
    /\ \A i \in 1..Len(written) : IsFile(fs, written[i].dest)
    \* a run that failed in the loop or before has no manifest written
    /\ (pc \in {"failed", "panicked"} /\ IsSome(cfg) /\ IsSome(C.output)) =>
            ~Synthesized(fs, ManifestOfRun)

FailFastStep ==
    \* stages go forward only, and only the write loop stays where it is,
    \* one file further
    /\ StageRank(pc') >= StageRank(pc)
    /\ pc' = pc => (pc = "write" /\ idx' = idx + 1 /\ Len(written') = Len(written) + 1)
    /\ pc' = "drive" => pc = "read_remap"
    /\ pc' \in {"mkdir", "print", "output_file"} => pc = "drive"
    /\ pc' = "write" => pc \in {"mkdir", "write"}
    \* an ended run does nothing more
    /\ ~Ended(pc)
    \* the failing step writes no file
    /\ pc' \in {"failed", "panicked"} => written' = written
    \* the manifest comes last, after every file has been written
    /\ ManifestTouched =>
          /\ pc = "write" /\ Ended(pc')
          /\ idx = Len(transpiled)
          /\ Len(written) = Len(transpiled)

\* C16: the stages of a module run occur in the order remap load, drive,
\* per-file write, manifest synthesis; the manifest is touched only after
\* every transpiled file has been written; the first failing step ends the
\* run with its error, after which nothing is written or retried, and the
\* files written before the failure stay in place.
C16_FailFastInOrder == []FailFastState /\ [][FailFastStep]_vars

\* the second file of a module could not be written: the first one is
\* there, and no manifest although one was asked for
C16_Witness ==
    /\ pc = "failed"
    /\ IsSome(cfg) /\ IsSome(C.output)
    /\ C.transpile_unit.unit = "Module"
    /\ C.create_manifest
    /\ Len(transpiled) = 2
    /\ Len(written) = 1
    /\ IsFile(fs, written[1].dest)
    /\ ~Exists(fs, ManifestOfRun)

----------------------------------------------------------------------------
(* A module run into an output directory that is there already *)

ModuleRunWithOutput ==
    /\ IsSome(cfg)
    /\ C.transpile_unit.unit = "Module"
    /\ IsSome(C.output)

SrcOut == Join(OutRoot, <<SrcName>>)
Destinations == {written[i].dest : i \in 1..Len(written)}

\* the file written last to the destination of the i-th write
LastWriteTo(i) ==
    CHOOSE j \in 1..Len(written) :
        /\ written[j].dest = written[i].dest
        /\ \A k \in 1..Len(written) : written[k].dest = written[i].dest => k <= j

ReuseState ==
    ModuleRunWithOutput =>
        \* created or truncated, then written: the text of the run, alone
        /\ \A i \in 1..Len(written) :
              fs[written[i].dest] = FileEntry(transpiled[LastWriteTo(i)].content)
        \* everything else that was there is as it was
        /\ \A path \in DOMAIN fs0 :
              (path \notin Destinations /\ path # ManifestOfRun) =>
                  EntryAt(fs, path) = Some(fs0[path])
        /\ ~C.create_manifest => EntryAt(fs, ManifestOfRun) = EntryAt(fs0, ManifestOfRun)

\* directory creation does not fail on directories that exist
ReuseStep ==
    (/\ pc = "mkdir"
     /\ IsDir(fs, OutRoot)
     /\ IsDir(fs, SrcOut) \/ ~Exists(fs, SrcOut)) =>
        /\ pc' = "write"
        /\ IsDir(fs', OutRoot) /\ IsDir(fs', SrcOut)
        /\ \A path \in DOMAIN fs : EntryAt(fs', path) = Some(fs[path])

\* C17: a module run into an output root that exists as a directory, with
\* or without its `src` directory, does not fail on directory creation;
\* each translated file is created or truncated and holds the text of this
\* run; files of the output directory that are no destination of this run
\* are left as they were.
C17_OutputRootReusable == []ReuseState /\ [][ReuseStep]_vars

\* a used output directory: a.rs of an earlier run was rewritten, k.rs kept
C17_Witness ==
    /\ ModuleMaterialized
    /\ IsDir(fs0, OutRoot) /\ IsDir(fs0, SrcOut)
    /\ \E i \in 1..Len(written) :
          /\ IsFile(fs0, written[i].dest)
          /\ fs[written[i].dest] # fs0[written[i].dest]
          /\ fs[written[i].dest] = FileEntry(transpiled[i].content)
    /\ EntryAt(fs, Join(SrcOut, <<KeepRsName>>)) = Some(OldFile("keep"))

----------------------------------------------------------------------------
(* Destinations of the files of one module run *)

AtMostOne(kind) ==
    \A i, j \in 1..Len(transpiled) :
        (transpiled[i].kind = kind /\ transpiled[j].kind = kind) => i = j

\* C18: in a module run with at most one library entry and at most one
\* binary entry no two transpiled files are written to the same
\* destination path: renaming an entry to lib.rs / main.rs never makes it
\* overwrite, or be overwritten by, another file of the run.
C18_DestinationsDistinct ==
    (ModuleRunWithOutput /\ AtMostOne("LibRs") /\ AtMostOne("MainRs")) =>
        \A i, j \in 1..Len(written) :
            written[i].dest = written[j].dest => i = j

\* C19: when a translated file of a module is about to be written, the
\* parent directory of its destination exists, also for files in nested
\* directories of the module, so that a run into a fresh output directory
\* does not fail for lack of a destination directory.
C19_DestinationDirExists ==
    (ModuleRunWithOutput /\ pc = "write" /\ idx < Len(transpiled)) =>
        LET file == transpiled[idx + 1]
            t == Translate(file.source_path, C.transpile_unit.path, OutRoot)
        IN IsSome(t) => ParentIsDir(fs, Renamed(Unwrap(t), file.kind))

====
